---- MODULE Spec2Model ----
(***************************************************************************)
(* Model of blueprints/websocket.py: the /websocket route layer and the    *)
(* Socket.IO connect hook.                                                 *)
(*                                                                         *)
(* Every action is one run of a handler, for a request that the            *)
(* check_session_validity decorator has let through.  The collaborators    *)
(* (services.websocket_service, database.symbol, database.auth_db) are     *)
(* external: what they return is chosen by \E, and every call the handler  *)
(* makes is appended to `calls` together with what it returned.            *)
(*                                                                         *)
(* Python strings that the code takes apart (symbol references, the search *)
(* query) are sequences of one-character strings; strings that are only    *)
(* passed along or concatenated are TLA+ strings.                          *)
(***************************************************************************)
EXTENDS Integers, Sequences, FiniteSets, TLC

VARIABLES
    request,      \* the request served last: [route, user, args, json]
    response,     \* what the handler returned: [status, body]
    calls,        \* collaborator calls made while serving `request`: [fn, args, ret]
    helper,       \* invocations of _get_broker_and_parse_symbols while serving `request`
    log,          \* logger records written while serving `request`
    callbacks,    \* callbacks handed to register_market_data_callback, oldest first
    page_loads,   \* per user, the GET /websocket/ requests served with that session user
    connections,  \* Socket.IO connections, oldest first: [sid, user, rooms, joined_at, inbox]
    emits         \* the socketio.emit calls made by the registered callbacks, oldest first

vars == <<request, response, calls, helper, log, callbacks, page_loads, connections, emits>>

----------------------------------------------------------------------------
(* Bounds *)

MaxSymbols  == 2   \* longest symbols list of a subscribe/unsubscribe body
MaxStrLen   == 3   \* longest symbol reference given to the parser alone
MaxList     == 2   \* longest list given to the parser alone
MaxQueryLen == 2   \* longest raw q parameter
MaxResults  == 2   \* most records the search collaborator returns
MaxLoads    == 2   \* most page loads with a session user
MaxConns    == 2   \* most Socket.IO connections
MaxEmits    == 2   \* most callback invocations

----------------------------------------------------------------------------
(* Values *)

None == "None"                 \* Python's None, where a string is expected
Users == {"alice", "bob"}
Sessions == Users \cup {None}  \* session.get('user')

EmptyDict == [k \in {} |-> None]

\* Python truthiness of a string-or-None value
truthy(v) == v # None /\ v # ""

\* Fault: the emptiness check of the symbols list left out
truthy_list_unchecked(l) == TRUE

\* Python truthiness of a list
truthy_list(l) == Len(l) > 0

\* dict.get(key, default)
dict_get(d, key, default) == IF key \in DOMAIN d THEN d[key] ELSE default

\* All sequences over S of length 0..n
SeqsUpTo(S, n) == UNION {[1..k -> S] : k \in 0..n}

Range(s) == {s[i] : i \in DOMAIN s}

\* flask.jsonify and flask.render_template: the body they produce
jsonify(x) == [mimetype |-> "application/json", json |-> x]
render_template(t) == [mimetype |-> "text/html", template |-> t]

Call(f, a, r) == [fn |-> f, args |-> a, ret |-> r]

\* What the websocket service returns: (success, payload, status_code)
Payloads == {[status |-> "success", message |-> "done"],
             [status |-> "error", message |-> "failed"]}
StatusCodes == {200, 500}
ServiceReturns == BOOLEAN \X Payloads \X StatusCodes

\* What the auth database returns
ApiKeyResults == {None, "key1"}
BrokerResults == {None, "zerodha"}

----------------------------------------------------------------------------
(* _get_broker_and_parse_symbols *)

\* s.find(c): the first index of c in s at or after i, 0 when there is none
RECURSIVE str_find(_, _, _)
str_find(s, c, i) ==
    IF i > Len(s) THEN 0
    ELSE IF s[i] = c THEN i
    ELSE str_find(s, c, i + 1)

\* Fault: s.rsplit(':', 1), which cuts at the last ':'
RECURSIVE str_rfind(_, _, _)
str_rfind(s, c, i) ==
    IF i < 1 THEN 0
    ELSE IF s[i] = c THEN i
    ELSE str_rfind(s, c, i - 1)

str_split_last(s) ==
    LET i == str_rfind(s, ":", Len(s))
    IN <<SubSeq(s, 1, i - 1), SubSeq(s, i + 1, Len(s))>>

\* s.split(':', 1), for an s that contains ':'
str_split_first(s) ==
    LET i == str_find(s, ":", 1)
    IN <<SubSeq(s, 1, i - 1), SubSeq(s, i + 1, Len(s))>>

NSE == <<"N", "S", "E">>

\* The body of the loop over symbols_list
parse_symbol(s) ==
    IF ":" \in Range(s)
    THEN LET parts == str_split_first(s)
         IN [exchange |-> parts[1], symbol |-> parts[2]]
    ELSE [exchange |-> NSE, symbol |-> s]

\* The loop over symbols_list, appending to parsed_symbols
RECURSIVE parse_loop(_, _, _)
parse_loop(symbols_list, i, parsed_symbols) ==
    IF i > Len(symbols_list) THEN parsed_symbols
    ELSE parse_loop(symbols_list, i + 1,
                    Append(parsed_symbols, parse_symbol(symbols_list[i])))

\* Fault: the broker is not checked before it is used
get_broker_and_parse_symbols_any_broker(username, symbols_list, api_key, broker) ==
    LET c1 == Call("get_api_key_for_tradingview", <<username>>, api_key)
        c2 == Call("get_broker_name", <<api_key>>, broker)
    IN IF ~truthy(api_key)
       THEN [ret |-> [broker |-> None, parsed_symbols |-> None,
                      error |-> "API Key not found"],
             calls |-> <<c1>>]
       ELSE [ret |-> [broker |-> broker,
                      parsed_symbols |-> parse_loop(symbols_list, 1, <<>>),
                      error |-> None],
             calls |-> <<c1, c2>>]

\* api_key and broker are what get_api_key_for_tradingview and get_broker_name
\* return when called.  The result is the returned triple and the calls made.
get_broker_and_parse_symbols(username, symbols_list, api_key, broker) ==
    LET c1 == Call("get_api_key_for_tradingview", <<username>>, api_key)
        c2 == Call("get_broker_name", <<api_key>>, broker)
    IN IF ~truthy(api_key)
       THEN [ret |-> [broker |-> None, parsed_symbols |-> None,
                      error |-> "API Key not found"],
             calls |-> <<c1>>]
       ELSE IF ~truthy(broker)
       THEN [ret |-> [broker |-> None, parsed_symbols |-> None,
                      error |-> "Broker not found"],
             calls |-> <<c1, c2>>]
       ELSE [ret |-> [broker |-> broker,
                      parsed_symbols |-> parse_loop(symbols_list, 1, <<>>),
                      error |-> None],
             calls |-> <<c1, c2>>]

HelperCall(username, symbols_list, h) ==
    [username |-> username, symbols_list |-> symbols_list, ret |-> h.ret]

----------------------------------------------------------------------------
(* Routes that delegate to the websocket service *)

Request(route, user, args, json) ==
    [route |-> route, user |-> user, args |-> args, json |-> json]

Response(body, status) == [status |-> status, body |-> body]

Served(req, out) ==
    /\ request' = req
    /\ response' = out.response
    /\ calls' = out.calls
    /\ helper' = out.helper
    /\ log' = out.log

\* Before any request, and for an event handler that returns nothing
NoResponse == Response(jsonify([status |-> "none"]), 0)

Out(resp, cs, hs, lg) == [response |-> resp, calls |-> cs, helper |-> hs, log |-> lg]

PushUnchanged == UNCHANGED <<callbacks, page_loads, connections, emits>>

subscribe_handler(username, data, api_key, broker, service_ret) ==
    IF ~truthy(username)
    THEN Out(Response(jsonify([error |-> "User not logged in"]), 401), <<>>, <<>>, <<>>)
    ELSE LET symbols == dict_get(data, "symbols", <<>>)
         IN IF ~truthy_list(symbols)
            THEN Out(Response(jsonify([error |-> "No symbols provided"]), 400),
                     <<>>, <<>>, <<>>)
            ELSE LET h == get_broker_and_parse_symbols(username, symbols, api_key, broker)
                     hs == <<HelperCall(username, symbols, h)>>
                 IN IF truthy(h.ret.error)
                    THEN Out(Response(jsonify([error |-> h.ret.error]), 400),
                             h.calls, hs, <<>>)
                    ELSE Out(Response(jsonify(service_ret[2]), service_ret[3]),
                             Append(h.calls,
                                    Call("subscribe_to_symbols",
                                         <<username, h.ret.broker, h.ret.parsed_symbols>>,
                                         service_ret)),
                             hs, <<>>)

\* Fault: unsubscribe() left as a copy of subscribe(), calling subscribe_to_symbols
unsubscribe_handler_copied(username, data, api_key, broker, service_ret) ==
    subscribe_handler(username, data, api_key, broker, service_ret)

unsubscribe_handler(username, data, api_key, broker, service_ret) ==
    IF ~truthy(username)
    THEN Out(Response(jsonify([error |-> "User not logged in"]), 401), <<>>, <<>>, <<>>)
    ELSE LET symbols == dict_get(data, "symbols", <<>>)
         IN IF ~truthy_list(symbols)
            THEN Out(Response(jsonify([error |-> "No symbols provided"]), 400),
                     <<>>, <<>>, <<>>)
            ELSE LET h == get_broker_and_parse_symbols(username, symbols, api_key, broker)
                     hs == <<HelperCall(username, symbols, h)>>
                 IN IF truthy(h.ret.error)
                    THEN Out(Response(jsonify([error |-> h.ret.error]), 400),
                             h.calls, hs, <<>>)
                    ELSE Out(Response(jsonify(service_ret[2]), service_ret[3]),
                             Append(h.calls,
                                    Call("unsubscribe_from_symbols",
                                         <<username, h.ret.broker, h.ret.parsed_symbols>>,
                                         service_ret)),
                             hs, <<>>)

subscribe(sessions, bodies, service_rets) ==
    /\ \E username \in sessions, data \in bodies, api_key \in ApiKeyResults,
          broker \in BrokerResults, service_ret \in service_rets :
          Served(Request("subscribe", username, EmptyDict, data),
                 subscribe_handler(username, data, api_key, broker, service_ret))
    /\ PushUnchanged

unsubscribe(sessions, bodies, service_rets) ==
    /\ \E username \in sessions, data \in bodies, api_key \in ApiKeyResults,
          broker \in BrokerResults, service_ret \in service_rets :
          Served(Request("unsubscribe", username, EmptyDict, data),
                 unsubscribe_handler(username, data, api_key, broker, service_ret))
    /\ PushUnchanged

\* Fault: the collaborator's status code dropped on failure too
get_subscriptions_handler_always_200(username, service_ret) ==
    IF ~truthy(username)
    THEN Out(Response(jsonify([error |-> "User not logged in"]), 401), <<>>, <<>>, <<>>)
    ELSE Out(Response(jsonify(service_ret[2]), 200),
             <<Call("get_websocket_subscriptions", <<username>>, service_ret)>>,
             <<>>, <<>>)

get_subscriptions_handler(username, service_ret) ==
    IF ~truthy(username)
    THEN Out(Response(jsonify([error |-> "User not logged in"]), 401), <<>>, <<>>, <<>>)
    ELSE LET c == Call("get_websocket_subscriptions", <<username>>, service_ret)
         IN IF service_ret[1]
            THEN Out(Response(jsonify(service_ret[2]), 200), <<c>>, <<>>, <<>>)
            ELSE Out(Response(jsonify(service_ret[2]), service_ret[3]), <<c>>, <<>>, <<>>)

get_subscriptions(sessions, service_rets) ==
    /\ \E username \in sessions, service_ret \in service_rets :
          Served(Request("subscriptions", username, EmptyDict, EmptyDict),
                 get_subscriptions_handler(username, service_ret))
    /\ PushUnchanged

\* Fault: the session user is not checked
status_handler_unchecked(username, service_ret) ==
    Out(Response(jsonify(service_ret[2]), service_ret[3]),
        <<Call("get_websocket_status", <<username>>, service_ret)>>, <<>>, <<>>)

status_handler(username, service_ret) ==
    IF ~truthy(username)
    THEN Out(Response(jsonify([error |-> "User not logged in"]), 401), <<>>, <<>>, <<>>)
    ELSE Out(Response(jsonify(service_ret[2]), service_ret[3]),
             <<Call("get_websocket_status", <<username>>, service_ret)>>, <<>>, <<>>)

status(sessions, service_rets) ==
    /\ \E username \in sessions, service_ret \in service_rets :
          Served(Request("status", username, EmptyDict, EmptyDict),
                 status_handler(username, service_ret))
    /\ PushUnchanged

----------------------------------------------------------------------------
(* GET /websocket/search *)

\* str.strip(): leading and trailing whitespace removed
Whitespace == {" "}

RECURSIVE str_lstrip(_)
str_lstrip(s) ==
    IF Len(s) > 0 /\ s[1] \in Whitespace THEN str_lstrip(Tail(s)) ELSE s

RECURSIVE str_rstrip(_)
str_rstrip(s) ==
    IF Len(s) > 0 /\ s[Len(s)] \in Whitespace
    THEN str_rstrip(SubSeq(s, 1, Len(s) - 1))
    ELSE s

\* Fault: the query is not stripped
str_strip_omitted(s) == s

str_strip(s) == str_rstrip(str_lstrip(s))

\* What enhanced_search_symbols does when called: it raises an Exception with a
\* message, or returns a list of records
Raises(message) == [raised |-> TRUE, message |-> message, results |-> <<>>]
Returns(results) == [raised |-> FALSE, message |-> "", results |-> results]

\* The attributes the handler reads, in the order it reads them
MarshalledAttrs == <<"symbol", "name", "exchange", "token", "instrumenttype">>

\* The first attribute of MarshalledAttrs, from the i-th on, that r lacks; 0 when none
RECURSIVE missing_attr(_, _)
missing_attr(r, i) ==
    IF i > Len(MarshalledAttrs) THEN 0
    ELSE IF MarshalledAttrs[i] \notin DOMAIN r THEN i
    ELSE missing_attr(r, i + 1)

\* The dict built from one record
marshal_record(r) ==
    [symbol |-> r.symbol, name |-> r.name, exchange |-> r.exchange,
     token |-> r.token, instrumenttype |-> r.instrumenttype]

\* The list comprehension over results: the records are marshalled in order, and
\* reading an attribute a record lacks raises AttributeError
RECURSIVE marshal_results(_, _, _)
marshal_results(results, i, out) ==
    IF i > Len(results) THEN Returns(out)
    ELSE LET m == missing_attr(results[i], 1)
         IN IF m # 0
            THEN Raises("object has no attribute " \o MarshalledAttrs[m])
            ELSE marshal_results(results, i + 1, Append(out, marshal_record(results[i])))

LogRecord(level, message) == [level |-> level, message |-> message]

\* Fault: a fixed message returned in place of str(e)
search_handler_fixed_message(args, outcome) ==
    LET query == str_strip(dict_get(args, "q", <<>>))
        exchange == dict_get(args, "exchange", None)
    IN IF Len(query) = 0
       THEN Out(Response(jsonify(<<>>), 200), <<>>, <<>>, <<>>)
       ELSE LET c == Call("enhanced_search_symbols", <<query, exchange>>, outcome)
                m == IF outcome.raised THEN outcome
                     ELSE marshal_results(outcome.results, 1, <<>>)
            IN IF m.raised
               THEN Out(Response(jsonify([error |-> "Internal server error"]), 500),
                        <<c>>, <<>>,
                        <<LogRecord("error", "Error searching symbols: " \o m.message)>>)
               ELSE Out(Response(jsonify(m.results), 200), <<c>>, <<>>, <<>>)

\* `outcome` is what enhanced_search_symbols does when called
search_handler(args, outcome) ==
    LET query == str_strip(dict_get(args, "q", <<>>))
        exchange == dict_get(args, "exchange", None)
    IN IF Len(query) = 0
       THEN Out(Response(jsonify(<<>>), 200), <<>>, <<>>, <<>>)
       ELSE LET c == Call("enhanced_search_symbols", <<query, exchange>>, outcome)
                m == IF outcome.raised THEN outcome
                     ELSE marshal_results(outcome.results, 1, <<>>)
            IN IF m.raised
               THEN Out(Response(jsonify([error |-> m.message]), 500), <<c>>, <<>>,
                        <<LogRecord("error", "Error searching symbols: " \o m.message)>>)
               ELSE Out(Response(jsonify(m.results), 200), <<c>>, <<>>, <<>>)

search(sessions, query_args, outcomes) ==
    /\ \E username \in sessions, args \in query_args, outcome \in outcomes :
          Served(Request("search", username, args, EmptyDict),
                 search_handler(args, outcome))
    /\ PushUnchanged

----------------------------------------------------------------------------
(* GET /websocket/, the connect hook and the registered callbacks *)

\* Fault: the user name is not put into the room name
room_name_shared(username) == "user_"

\* f"user_{username}"
room_name(username) == "user_" \o username

\* The closure on_market_data, which captures the local `username`
Closure(username) == [fn |-> "on_market_data", username |-> username]

\* Fault: the page is rendered without registering the callback
index_handler_unregistered(username) ==
    Out(Response(render_template("websocket.html"), 200), <<>>, <<>>, <<>>)

index_handler(username) ==
    IF truthy(username)
    THEN Out(Response(render_template("websocket.html"), 200),
             <<Call("register_market_data_callback",
                    <<username, Closure(username)>>, None)>>,
             <<>>, <<>>)
    ELSE Out(Response(render_template("websocket.html"), 200), <<>>, <<>>, <<>>)

\* What register_market_data_callback is handed, in order
registered(cs) ==
    [i \in 1..Len(cs) |-> [username |-> cs[i].args[1], callback |-> cs[i].args[2]]]

index(sessions) ==
    \E username \in sessions :
        LET out == index_handler(username)
        IN /\ Len(callbacks) + Len(out.calls) <= MaxLoads
           /\ Served(Request("index", username, EmptyDict, EmptyDict), out)
           /\ callbacks' = callbacks \o registered(out.calls)
           /\ page_loads' = IF truthy(username)
                             THEN [page_loads EXCEPT ![username] = @ + 1]
                             ELSE page_loads
           /\ UNCHANGED <<connections, emits>>

\* join_room(...) for the connecting client, when there is a session user
connect_rooms(username) ==
    IF truthy(username) THEN {room_name(username)} ELSE {}

connect_log(username) ==
    IF truthy(username)
    THEN <<LogRecord("info", "User " \o username
                              \o " connected to Socket.IO and joined room "
                              \o room_name(username))>>
    ELSE <<>>

handle_connect(sessions) ==
    \E username \in sessions :
        /\ Len(connections) < MaxConns
        /\ Served(Request("connect", username, EmptyDict, EmptyDict),
                  Out(NoResponse, <<>>, <<>>, connect_log(username)))
        /\ connections' = Append(connections,
                                 [sid |-> Len(connections) + 1,
                                  user |-> username,
                                  rooms |-> connect_rooms(username),
                                  joined_at |-> Len(emits),
                                  inbox |-> <<>>])
        /\ UNCHANGED <<callbacks, page_loads, emits>>

MarketData == {"tick1", "tick2"}

\* The socketio.emit call in the body of a closure
emit_of(closure, data) ==
    [event |-> "market_data", data |-> data, room |-> room_name(closure.username)]

\* socketio.emit(event, data, room=r) delivers to the connections that are in r
deliver(conns, e, n) ==
    [i \in 1..Len(conns) |->
        IF e.room \in conns[i].rooms
        THEN [conns[i] EXCEPT !.inbox = Append(@, [emit |-> n, event |-> e.event,
                                                   data |-> e.data])]
        ELSE conns[i]]

\* The service invokes a registered callback with a piece of market data
on_market_data ==
    \E i \in 1..Len(callbacks), data \in MarketData :
        LET e == emit_of(callbacks[i].callback, data)
        IN /\ Len(emits) < MaxEmits
           /\ emits' = Append(emits, [event |-> e.event, data |-> e.data,
                                      room |-> e.room,
                                      registered_for |-> callbacks[i].username])
           /\ connections' = deliver(connections, e, Len(emits) + 1)
           /\ UNCHANGED <<request, response, calls, helper, log, callbacks, page_loads>>

----------------------------------------------------------------------------
(* _get_broker_and_parse_symbols called on its own *)

ParserChars == {":", "A"}
ParserStrings == SeqsUpTo(ParserChars, MaxStrLen)
ParserLists == SeqsUpTo(ParserStrings, MaxList)

\* A call that is about to be made: the arguments are in `request`
HelperRequest(username, symbols_list) ==
    Request("_get_broker_and_parse_symbols", username, EmptyDict,
            [symbols |-> symbols_list])

call_helper ==
    /\ request.route = "_get_broker_and_parse_symbols"
    /\ helper = <<>>
    /\ \E api_key \in ApiKeyResults, broker \in BrokerResults :
          LET h == get_broker_and_parse_symbols(request.user, request.json.symbols,
                                                api_key, broker)
          IN /\ calls' = h.calls
             /\ helper' = <<HelperCall(request.user, request.json.symbols, h)>>
    /\ UNCHANGED <<request, response, log>>
    /\ PushUnchanged

----------------------------------------------------------------------------
(* Request inputs *)

\* Symbol references used by the routes
SymbolRefs == {<<"N", ":", "A">>, <<"A">>}

\* JSON bodies of subscribe/unsubscribe: with a symbols list, or without the key
SymbolBodies ==
    {[symbols |-> l] : l \in SeqsUpTo(SymbolRefs, MaxSymbols)} \cup {[other |-> None]}

\* Query strings of /search: q and exchange, each present or absent
QueryChars == {" ", "a"}
Queries == SeqsUpTo(QueryChars, MaxQueryLen)
QueryArgs ==
    {[q |-> q, exchange |-> "NSE"] : q \in Queries}
        \cup {[q |-> <<"a">>], [exchange |-> "NSE"]}

\* Rows the symbol database returns; the last lacks attributes the handler reads
SymbolRows ==
    {[symbol |-> "INFY", name |-> "INFOSYS", exchange |-> "NSE", token |-> "1594",
      instrumenttype |-> "EQ", brsymbol |-> "INFY-EQ"],
     [symbol |-> "TCS", name |-> "TATA CONSULTANCY", exchange |-> "BSE",
      token |-> "532540", instrumenttype |-> "EQ", brsymbol |-> "TCS"],
     [symbol |-> "X", name |-> "X"]}
SearchOutcomes ==
    {Raises("database is locked")}
        \cup {Returns(rs) : rs \in SeqsUpTo(SymbolRows, MaxResults)}

\* The inputs of the whole-layer specifications: one case of each kind
FewBodies == {[symbols |-> <<>>], [symbols |-> <<<<"N", ":", "A">>>>]}
FewServiceReturns ==
    {<<TRUE, [status |-> "success", message |-> "done"], 200>>,
     <<FALSE, [status |-> "error", message |-> "failed"], 500>>}
FewQueryArgs == {[q |-> <<" ">>], [q |-> <<"a">>, exchange |-> "NSE"]}
FewSearchOutcomes ==
    {Raises("database is locked"),
     Returns(<<[symbol |-> "INFY", name |-> "INFOSYS", exchange |-> "NSE",
                token |-> "1594", instrumenttype |-> "EQ", brsymbol |-> "INFY-EQ"]>>)}

----------------------------------------------------------------------------
(* Specifications *)

Init ==
    /\ request = Request("none", None, EmptyDict, EmptyDict)
    /\ response = NoResponse
    /\ calls = <<>>
    /\ helper = <<>>
    /\ log = <<>>
    /\ callbacks = <<>>
    /\ page_loads = [u \in Users |-> 0]
    /\ connections = <<>>
    /\ emits = <<>>

\* The whole layer: every route and the connect hook
Next ==
    \/ index(Sessions)
    \/ handle_connect(Sessions)
    \/ search(Sessions, FewQueryArgs, FewSearchOutcomes)
    \/ get_subscriptions(Sessions, FewServiceReturns)
    \/ subscribe(Sessions, FewBodies, FewServiceReturns)
    \/ unsubscribe(Sessions, FewBodies, FewServiceReturns)
    \/ status(Sessions, FewServiceReturns)

Spec == Init /\ [][Next]_vars

\* The four routes that delegate to services.websocket_service
NextService ==
    \/ subscribe(Sessions, SymbolBodies, ServiceReturns)
    \/ unsubscribe(Sessions, SymbolBodies, ServiceReturns)
    \/ get_subscriptions(Sessions, ServiceReturns)
    \/ status(Sessions, ServiceReturns)

SpecService == Init /\ [][NextService]_vars

\* The search route
NextSearch == search(Sessions, QueryArgs, SearchOutcomes)

SpecSearch == Init /\ [][NextSearch]_vars

\* The symbol-reference parser: any one call of the helper
InitParse ==
    /\ \E symbols_list \in ParserLists : request = HelperRequest("alice", symbols_list)
    /\ response = NoResponse
    /\ calls = <<>>
    /\ helper = <<>>
    /\ log = <<>>
    /\ callbacks = <<>>
    /\ page_loads = [u \in Users |-> 0]
    /\ connections = <<>>
    /\ emits = <<>>

NextParse == call_helper

SpecParse == InitParse /\ [][NextParse]_vars

\* Page loads, connections and the service invoking the registered callbacks
NextPush ==
    \/ index(Sessions)
    \/ handle_connect(Sessions)
    \/ on_market_data

SpecPush == Init /\ [][NextPush]_vars

----------------------------------------------------------------------------
(* Properties *)

ServiceRoutes == {"subscriptions", "status", "subscribe", "unsubscribe"}
GuardedRoutes == ServiceRoutes \cup {"index", "search"}
SymbolRoutes == {"subscribe", "unsubscribe"}

CallsTo(f) == {i \in DOMAIN calls : calls[i].fn = f}

NotLoggedIn == Response(jsonify([error |-> "User not logged in"]), 401)

HasSymbols == "symbols" \in DOMAIN request.json /\ Len(request.json.symbols) > 0

\* The q parameter as sent, empty when absent
RawQuery == IF "q" \in DOMAIN request.args THEN request.args.q ELSE <<>>

\* C1 as stated: on every session-guarded route, a request whose session has no
\* user returns 401 and makes no collaborator call.
C1_AllRoutes401 ==
    (request.route \in GuardedRoutes /\ ~truthy(request.user))
        => (response.status = 401 /\ Len(calls) = 0)

\* C1, amended: with no session user, /subscriptions, /status, /subscribe and
\* /unsubscribe return 401 "User not logged in" and call no collaborator; the
\* index page is rendered with 200 and no collaborator call; /search never returns
\* 401 and calls the search collaborator exactly when the stripped query is
\* non-empty.
C1_NoUser ==
    ~truthy(request.user) =>
        /\ request.route \in ServiceRoutes =>
              (response = NotLoggedIn /\ Len(calls) = 0 /\ Len(helper) = 0)
        /\ request.route = "index" =>
              (response = Response(render_template("websocket.html"), 200)
               /\ Len(calls) = 0)
        /\ request.route = "search" =>
              /\ response.status \in {200, 500}
              /\ Len(calls) = (IF \E i \in DOMAIN RawQuery :
                                      RawQuery[i] \notin Whitespace
                               THEN 1 ELSE 0)

C1_Witness ==
    /\ request.route = "status"
    /\ request.user = None
    /\ response.status = 401

\* C2: subscribe/unsubscribe with a user, a non-empty symbols list and both
\* resolutions successful call the service function exactly once, with the session
\* user, the resolved broker and the parsed list, and return exactly its payload
\* and status code.
C2_Resolved ==
    /\ \E i \in CallsTo("get_api_key_for_tradingview") : truthy(calls[i].ret)
    /\ \E i \in CallsTo("get_broker_name") : truthy(calls[i].ret)

C2_Mirror ==
    (request.route \in SymbolRoutes /\ truthy(request.user) /\ HasSymbols
     /\ C2_Resolved) =>
        LET fn == IF request.route = "subscribe"
                  THEN "subscribe_to_symbols" ELSE "unsubscribe_from_symbols"
            other == IF request.route = "subscribe"
                     THEN "unsubscribe_from_symbols" ELSE "subscribe_to_symbols"
        IN /\ Cardinality(CallsTo(fn)) = 1
           /\ CallsTo(other) = {}
           /\ Len(helper) = 1
           /\ helper[1].symbols_list = request.json.symbols
           /\ \A i \in CallsTo(fn) :
                 /\ calls[i].args[1] = request.user
                 /\ \E j \in CallsTo("get_broker_name") :
                       calls[i].args[2] = calls[j].ret
                 /\ calls[i].args[3] = helper[1].ret.parsed_symbols
                 /\ response.status = calls[i].ret[3]
                 /\ response.body = jsonify(calls[i].ret[2])

C2_Witness ==
    /\ request.route = "unsubscribe"
    /\ response.status = 500
    /\ \E i \in CallsTo("unsubscribe_from_symbols") :
          calls[i].ret[1] = TRUE /\ calls[i].ret[3] = 500

\* C3: when both resolutions succeed the helper returns a list as long as its
\* input where entry i is input[i] cut at its first ':' (the exchange holds no ':'
\* and exchange, ':' and symbol put together give input[i] back) or, without a
\* ':', is NSE with input[i] as the symbol.
C3_EntryParsed(s, p) ==
    IF \E k \in DOMAIN s : s[k] = ":"
    THEN /\ \A k \in DOMAIN p.exchange : p.exchange[k] # ":"
         /\ p.exchange \o <<":">> \o p.symbol = s
    ELSE /\ p.exchange = <<"N", "S", "E">>
         /\ p.symbol = s

C3_Parse ==
    \A n \in DOMAIN helper :
        helper[n].ret.error = None =>
            /\ Len(helper[n].ret.parsed_symbols) = Len(helper[n].symbols_list)
            /\ \A i \in DOMAIN helper[n].symbols_list :
                  C3_EntryParsed(helper[n].symbols_list[i],
                                 helper[n].ret.parsed_symbols[i])

C3_Witness ==
    /\ Len(helper) = 1
    /\ helper[1].ret.error = None
    /\ helper[1].symbols_list = << <<"A", ":", ":">>, <<"A", ":", ":">> >>
    /\ helper[1].ret.parsed_symbols[2] = [exchange |-> <<"A">>, symbol |-> <<":">>]

\* C4: subscribe/unsubscribe with a user and a missing or empty symbols list return
\* 400 "No symbols provided" without running the helper or calling any
\* collaborator; these routes never hand the helper an empty list.
C4_NoSymbols ==
    request.route \in SymbolRoutes =>
        /\ (truthy(request.user) /\ ~HasSymbols) =>
              /\ response = Response(jsonify([error |-> "No symbols provided"]), 400)
              /\ Len(calls) = 0
              /\ Len(helper) = 0
        /\ \A n \in DOMAIN helper : Len(helper[n].symbols_list) > 0

C4_Witness ==
    /\ request.route = "subscribe"
    /\ truthy(request.user)
    /\ "symbols" \notin DOMAIN request.json
    /\ response.status = 400

\* C5: subscribe/unsubscribe with a user and a non-empty symbols list ask for the
\* API key first; a missing key or a missing broker gives 400 with the matching
\* message and no service call; get_broker_name is called only with a key that
\* get_api_key_for_tradingview returned before.
C5_Resolution ==
    (request.route \in SymbolRoutes /\ truthy(request.user) /\ HasSymbols) =>
        /\ Len(calls) >= 1
        /\ calls[1].fn = "get_api_key_for_tradingview"
        /\ calls[1].args = <<request.user>>
        /\ ~truthy(calls[1].ret) =>
              /\ response = Response(jsonify([error |-> "API Key not found"]), 400)
              /\ Len(calls) = 1
        /\ \A j \in CallsTo("get_broker_name") :
              /\ j = 2
              /\ truthy(calls[1].ret)
              /\ calls[j].args = <<calls[1].ret>>
              /\ ~truthy(calls[j].ret) =>
                    /\ response = Response(jsonify([error |-> "Broker not found"]), 400)
                    /\ Len(calls) = 2

C5_Witness ==
    /\ request.route = "subscribe"
    /\ response = Response(jsonify([error |-> "Broker not found"]), 400)
    /\ Len(calls) = 2

\* C6: /search with q absent, empty or all whitespace returns an empty array
\* without calling enhanced_search_symbols; otherwise the collaborator is called
\* exactly once, with q cut of its surrounding whitespace and the exchange
\* parameter (None when absent).
C6_Stripped(q, t) ==
    /\ Len(t) > 0
    /\ t[1] \notin Whitespace
    /\ t[Len(t)] \notin Whitespace
    /\ \E i, j \in DOMAIN q :
          /\ t = SubSeq(q, i, j)
          /\ \A k \in DOMAIN q : (k < i \/ k > j) => q[k] \in Whitespace

C6_Search ==
    request.route = "search" =>
        IF \A k \in DOMAIN RawQuery : RawQuery[k] \in Whitespace
        THEN /\ response.status = 200
             /\ response.body = jsonify(<<>>)
             /\ Len(calls) = 0
        ELSE /\ Len(calls) = 1
             /\ calls[1].fn = "enhanced_search_symbols"
             /\ C6_Stripped(RawQuery, calls[1].args[1])
             /\ calls[1].args[2] = (IF "exchange" \in DOMAIN request.args
                                    THEN request.args.exchange ELSE None)

C6_Witness ==
    /\ request.route = "search"
    /\ RawQuery = <<" ", " ">>
    /\ response.body = jsonify(<<>>)
    /\ Len(calls) = 0

\* C7: /search with a non-empty query always returns a response: 500 with the
\* exception message in `error`, and one error log record carrying it, when the
\* collaborator raises or a record lacks an attribute the handler reads;
\* otherwise 200 with one five-field record per result, in the collaborator's
\* order.
C7_Complete(r) == \A a \in Range(MarshalledAttrs) : a \in DOMAIN r

C7_Failed ==
    /\ response.status = 500
    /\ DOMAIN response.body.json = {"error"}
    /\ log = <<LogRecord("error",
                         "Error searching symbols: " \o response.body.json.error)>>

C7_Search ==
    (request.route = "search" /\ Len(calls) = 1) =>
        LET outcome == calls[1].ret
        IN IF outcome.raised
           THEN C7_Failed /\ response.body.json.error = outcome.message
           ELSE IF \E i \in DOMAIN outcome.results : ~C7_Complete(outcome.results[i])
           THEN C7_Failed
           ELSE /\ response.status = 200
                /\ log = <<>>
                /\ Len(response.body.json) = Len(outcome.results)
                /\ \A i \in DOMAIN outcome.results :
                      /\ DOMAIN response.body.json[i] = Range(MarshalledAttrs)
                      /\ \A a \in Range(MarshalledAttrs) :
                            response.body.json[i][a] = outcome.results[i][a]

C7_Witness ==
    /\ request.route = "search"
    /\ Len(calls) = 1
    /\ calls[1].ret.raised
    /\ response = Response(jsonify([error |-> "database is locked"]), 500)
    /\ Len(log) = 1

\* C8: /subscriptions with a user returns the payload of
\* get_websocket_subscriptions, with the collaborator's status code when the
\* collaborator reports failure; /status with a user returns the payload and the
\* status code of get_websocket_status.
C8_PassThrough ==
    truthy(request.user) =>
        /\ request.route = "subscriptions" =>
              /\ Len(calls) = 1
              /\ calls[1].fn = "get_websocket_subscriptions"
              /\ calls[1].args = <<request.user>>
              /\ response.body = jsonify(calls[1].ret[2])
              /\ ~calls[1].ret[1] => response.status = calls[1].ret[3]
        /\ request.route = "status" =>
              /\ Len(calls) = 1
              /\ calls[1].fn = "get_websocket_status"
              /\ calls[1].args = <<request.user>>
              /\ response.body = jsonify(calls[1].ret[2])
              /\ response.status = calls[1].ret[3]

C8_Witness ==
    /\ request.route = "subscriptions"
    /\ Len(calls) = 1
    /\ calls[1].ret[1] = FALSE
    /\ calls[1].ret[3] = 500
    /\ response.status = 500

\* C9: every page load with a session user makes exactly one
\* register_market_data_callback call for that user, no step of the layer removes
\* or replaces a registered callback, and the callbacks registered for a user are
\* as many as that user's page loads.
C9_Registered(cbs, u) == Cardinality({i \in DOMAIN cbs : cbs[i].username = u})

C9_Counts ==
    /\ \A i \in DOMAIN callbacks : callbacks[i].username \in Users
    /\ \A u \in Users : C9_Registered(callbacks, u) = page_loads[u]
    /\ (request.route = "index" /\ truthy(request.user)) =>
          /\ Len(calls) = 1
          /\ calls[1].fn = "register_market_data_callback"
          /\ calls[1].args[1] = request.user
    /\ (request.route # "index" \/ ~truthy(request.user)) =>
          CallsTo("register_market_data_callback") = {}

C9_Step ==
    /\ Len(callbacks') >= Len(callbacks)
    /\ SubSeq(callbacks', 1, Len(callbacks)) = callbacks
    /\ \A u \in Users :
          /\ C9_Registered(callbacks', u) >= C9_Registered(callbacks, u)
          /\ page_loads'[u] # page_loads[u] =>
                /\ page_loads'[u] = page_loads[u] + 1
                /\ C9_Registered(callbacks', u) = C9_Registered(callbacks, u) + 1
                /\ callbacks'[Len(callbacks')].username = u

C9_Accumulates == [](C9_Counts) /\ [][C9_Step]_vars

C9_Witness ==
    /\ page_loads["alice"] = MaxLoads
    /\ Len(callbacks) = MaxLoads
    /\ \A i \in DOMAIN callbacks : callbacks[i].username = "alice"
    /\ request.route = "status"

\* C10: a connection with session user u is in the room user_<u> only, and one
\* without a session user is in no room; a callback registered for u emits
\* market_data to room user_<u> only; so whatever a connection has received was
\* emitted by a callback registered for the connection's own user, after the
\* connection joined.
C10_Isolation ==
    /\ \A c \in DOMAIN connections :
          connections[c].rooms = (IF truthy(connections[c].user)
                                  THEN {"user_" \o connections[c].user} ELSE {})
    /\ \A e \in DOMAIN emits :
          /\ emits[e].event = "market_data"
          /\ emits[e].room = "user_" \o emits[e].registered_for
    /\ \A c \in DOMAIN connections :
          \A m \in DOMAIN connections[c].inbox :
              LET msg == connections[c].inbox[m]
              IN /\ msg.emit \in DOMAIN emits
                 /\ emits[msg.emit].registered_for = connections[c].user
                 /\ msg.data = emits[msg.emit].data
                 /\ msg.emit > connections[c].joined_at

C10_Witness ==
    /\ Len(emits) = 2
    /\ emits[1].registered_for = "alice"
    /\ emits[2].registered_for = "alice"
    /\ \E a, b \in DOMAIN connections :
          /\ connections[a].user = "alice"
          /\ connections[a].joined_at = 1
          /\ Len(connections[a].inbox) = 1
          /\ connections[b].user = "bob"
          /\ connections[b].joined_at = 0
          /\ Len(connections[b].inbox) = 0

====
